---- MODULE Spec2Model ----
(***************************************************************************)
(* A model of yt_dlp/extractor/francetv.py: FranceTVIE._real_extract and   *)
(* FranceTVIE._extract_video (the video-resolution pipeline) and           *)
(* FranceTVInfoIE._real_extract with _make_url_result (the page resolver). *)
(*                                                                         *)
(* Python values are represented as follows.  An optional value is a       *)
(* sequence of length at most one: <<>> is None and <<v>> is the value v.  *)
(* A dict is a record whose fields are optional values.  A string that the *)
(* code only passes around is a TLA+ string; a string that the code parses *)
(* (a URL handed to FranceTVIE, a pre_title) is a sequence of tokens.      *)
(***************************************************************************)
EXTENDS Integers, Sequences, FiniteSets, TLC

VARIABLES
    url,             \* the URL handed to FranceTVIE._real_extract (tokens)
    backend,         \* what the player web service answers per device type
    served,          \* what a manifest of the CDN holds (variants, subtitles)
    pc,              \* position of the extraction
    video_id, catalogue, hostname,          \* arguments of _extract_video
    device,          \* index of the device_type loop (line 104)
    is_live, videos, title, subtitle, episode_number, season_number,
    image, duration, timestamp, spritesheets,  \* locals of lines 93-102
    vi,              \* descriptors the loop of line 141 has processed
    formats, subtitles, video_url,          \* locals of line 140
    requests,        \* the network calls made so far, in order
    result,          \* the dict returned by _extract_video
    page,            \* the page FranceTVInfoIE downloads, and its URL
    info_result      \* what FranceTVInfoIE._real_extract returns

locals == <<is_live, videos, title, subtitle, episode_number, season_number,
            image, duration, timestamp, spritesheets>>
args == <<video_id, catalogue, hostname>>
loop == <<vi, formats, subtitles, video_url>>
world == <<backend, served, page>>
vars == <<url, world, pc, args, device, locals, loop, requests, result,
          info_result>>

----------------------------------------------------------------------------
(* Optional values.                                                        *)
None == <<>>
Some(v) == <<v>>

(* Python truthiness of an optional list or token string.                  *)
Truthy(o) == o # None /\ o[1] # <<>>

----------------------------------------------------------------------------
(* Bounds of the model.                                                    *)
MaxVariants == 1     \* formats a manifest holds at most
MaxSheets == 1       \* spritesheets a video carries at most
MaxBody == 3         \* tokens after the prefix of a legacy/internal URL
MaxParams == 2       \* query parameters of an API-ping URL
MaxEmbeds == 1       \* Dailymotion embeds of a page

----------------------------------------------------------------------------
(* URLs of streams.  Only what the code inspects is kept: the scheme       *)
(* (url_or_none, startswith('rtmp')), the extension (determine_ext) and    *)
(* whether the URL is a signed one handed out by the token endpoint.       *)
Url(scheme, ext) == [scheme |-> scheme, ext |-> ext, signed |-> FALSE]

Signed(u) == [u EXCEPT !.signed = TRUE]

(* utils.url_or_none: the value if it is a string with a known scheme.     *)
VALID_SCHEMES == {"http", "https", "rtmp"}

UrlOrNone(o) == IF o # None /\ o[1].scheme \in VALID_SCHEMES THEN o ELSE None

(* utils.determine_ext: the extension of the URL's path, else the default. *)
DetermineExt(u) == IF u.ext # "" THEN u.ext ELSE "unknown_video"

DEVICE_TYPES == <<"desktop", "mobile">>

GEO_COUNTRIES == <<"FR">>

AUDIO_DESCRIPTION_LANGUAGES == {"qtz", "qad"}

AUDIO_DESCRIPTION_PREFERENCE == -10

FRAGMENT_DURATION == 200

(* The preference the format sorter gives a format with no                 *)
(* language_preference of its own.                                         *)
DEFAULT_LANGUAGE_PREFERENCE == -1

----------------------------------------------------------------------------
(* fatal=... of each network call of _extract_video.  A fatal call that    *)
(* fails raises out of _extract_video; a non-fatal one returns a falsy     *)
(* value.                                                                  *)
(* Mutant of JsonFatal: the metadata query is fatal.                       *)
JsonFatalDefault == TRUE

JsonFatal == FALSE

TokenFatal == FALSE

ManifestFatal == FALSE

HeadFatal == FALSE

----------------------------------------------------------------------------
(* Parsing helpers.                                                        *)
DIGITS == {"0", "1", "2", "3", "4", "5", "6", "7", "8", "9"}

WHITESPACE == {" "}

DigitValue(c) ==
    CASE c = "0" -> 0 [] c = "1" -> 1 [] c = "2" -> 2 [] c = "3" -> 3
      [] c = "4" -> 4 [] c = "5" -> 5 [] c = "6" -> 6 [] c = "7" -> 7
      [] c = "8" -> 8 [] c = "9" -> 9

RECURSIVE ToInt(_)
ToInt(ds) ==
    IF ds = <<>> THEN 0
    ELSE 10 * ToInt(SubSeq(ds, 1, Len(ds) - 1)) + DigitValue(ds[Len(ds)])

(* utils.int_or_none of a string of digits.                                *)
IntOrNone(o) == IF o = None THEN None ELSE Some(ToInt(o[1]))

(* The first position at or after i whose token is not in cls.             *)
RECURSIVE RunEnd(_, _, _)
RunEnd(s, i, cls) ==
    IF i <= Len(s) /\ s[i] \in cls THEN RunEnd(s, i + 1, cls) ELSE i

(* re: S(\d+)\s*E(\d+) matched at position i; the two groups, or None.     *)
EpisodeMatchAt(s, i) ==
    LET d1 == RunEnd(s, i + 1, DIGITS)
        w == RunEnd(s, d1, WHITESPACE)
        d2 == RunEnd(s, w + 1, DIGITS)
    IN  IF s[i] = "S" /\ d1 > i + 1 /\ w <= Len(s) /\ s[w] = "E" /\ d2 > w + 1
        THEN Some(<<SubSeq(s, i + 1, d1 - 1), SubSeq(s, w + 1, d2 - 1)>>)
        ELSE None

RECURSIVE EpisodeSearchFrom(_, _)
EpisodeSearchFrom(s, i) ==
    IF i > Len(s) THEN None
    ELSE IF EpisodeMatchAt(s, i) # None THEN EpisodeMatchAt(s, i)
    ELSE EpisodeSearchFrom(s, i + 1)

(* self._search_regex(r'S(\d+)\s*E(\d+)', pre_title, group=(1, 2),         *)
(* default=(None, None)): the leftmost match's groups.                     *)
SearchEpisodeInfo(pre_title) ==
    LET m == IF pre_title = None THEN None
             ELSE EpisodeSearchFrom(pre_title[1], 1)
    IN  IF m = None THEN <<None, None>>
        ELSE <<Some(m[1][1]), Some(m[1][2])>>

(* utils.parse_iso8601: seconds since the epoch, None when unparsable.     *)
ParseIso8601(o) ==
    IF o = None THEN None
    ELSE CASE o[1] = "2017-08-13T11:25:00Z" -> Some(1502623500)
           [] o[1] = "2022-01-21T10:36:00Z" -> Some(1642761360)
           [] OTHER -> None

(* utils.join_nonempty(title, subtitle, delim=' - '): the truthy values,   *)
(* in order; the list stands for its members joined by the delimiter.      *)
JoinNonempty(a, b) ==
    (IF a # None /\ a[1] # "" THEN <<a[1]>> ELSE <<>>)
        \o (IF b # None /\ b[1] # "" THEN <<b[1]>> ELSE <<>>)

----------------------------------------------------------------------------
(* Formats.                                                                *)
FormatId(prefix, id, variant) ==
    [prefix |-> prefix, id |-> id, variant |-> variant]

Format(u, fid, ext, protocol, acodec, language, note) ==
    [url |-> u, format_id |-> fid, ext |-> ext, protocol |-> protocol,
     acodec |-> acodec, vcodec |-> None, language |-> language,
     language_preference |-> None, format_note |-> note, fragments |-> <<>>]

(* The formats a manifest parser returns for the manifest at u: one per    *)
(* variant the manifest holds, tagged with the descriptor's format id.     *)
ManifestFormats(u, id, ext, protocol) ==
    [i \in 1..Len(served.variants) |->
        Format(u, FormatId("", id, i), ext, protocol,
               served.variants[i].acodec, served.variants[i].language,
               served.variants[i].format_note)]

ManifestSubtitles(u) == {[lang |-> l, url |-> u] : l \in served.subtitles}

(* Mutant of Candidates: a descriptor seen before is skipped.              *)
CandidatesDeduplicated(vs) ==
    LET valid == SelectSeq(vs, LAMBDA v : UrlOrNone(v.url) # None)
    IN  IF Len(valid) = 2 /\ valid[1] = valid[2] THEN <<valid[1]>> ELSE valid

(* The descriptors the loop of line 141 iterates: those of videos whose    *)
(* 'url' passes url_or_none.                                               *)
Candidates(vs) == SelectSeq(vs, LAMBDA v : UrlOrNone(v.url) # None)

(* One network call: what is asked (op), for which device type, with which *)
(* domain hint, of which URL, how it ended (status) and, for a token       *)
(* exchange, the URL it handed out.                                        *)
Request(op, dev, domain, target, status, got) ==
    [op |-> op, device |-> dev, domain |-> domain, url |-> target,
     status |-> status, got |-> got]

----------------------------------------------------------------------------
(* The answers the network can give.                                       *)
TOKEN_WORKFLOW == "token-akamai"

(* A descriptor is exchanged for a signed URL (lines 145-146).             *)
NeedsToken(video) ==
    UrlOrNone(video.token) # None /\ video.workflow = Some(TOKEN_WORKFLOW)

(* The JSON of the token endpoint: the download failed (None), or a dict   *)
(* whose 'url' is missing, is not a URL, is the signed form of the         *)
(* descriptor's URL, or is a signed URL of another container.              *)
TokenAnswers(u) ==
    {None, Some([url |-> None]), Some([url |-> Some(Url("bad", ""))]),
     Some([url |-> Some(Signed(u))]),
     Some([url |-> Some(Signed(Url("https", "m3u8")))])}

(* traverse_obj(json, ('url', {url_or_none}))                              *)
TokenizedUrl(answer) == IF answer = None THEN None ELSE UrlOrNone(answer[1].url)

TokenStatus(answer) ==
    IF answer = None THEN "failed"
    ELSE IF TokenizedUrl(answer) = None THEN "no_url"
    ELSE "signed"

PROBE_ANSWERS == {"failed", "plain", "geo"}

----------------------------------------------------------------------------
(* URLs handed to FranceTVIE: a prefix token, then the tokens of the rest. *)
(* A token is a run of word characters or one punctuation character.       *)
PING == "https://sivideo.webservices.francetelevisions.fr/tools/getInfosOeuvre/v2/?"

LEGACY == "http://videos.francetv.fr/video/"

INTERNAL == "francetv:"

(* utils.smuggle_url appends '#__youtubedl_smuggle=' and the encoded data; *)
(* the data is {'hostname': h}, written here as the token h.               *)
SMUGGLE == "#__youtubedl_smuggle="

PUNCTUATION == {"@", "&", "=", "#", "-", SMUGGLE}

From(s, i) == SubSeq(s, i, Len(s))

Positions(s, tokens) == {i \in 1..Len(s) : s[i] \in tokens}

Min(S) == CHOOSE x \in S : \A y \in S : x <= y

Max(S) == CHOOSE x \in S : \A y \in S : x >= y

(* utils.unsmuggle_url(url, {}): the URL as it is when it carries no       *)
(* smuggled data, else the URL before the last '#' and the data after it.  *)
Unsmuggle(u) ==
    IF Positions(u, {SMUGGLE}) = {} THEN [ok |-> TRUE, url |-> u, data |-> None]
    ELSE LET i == Max(Positions(u, {SMUGGLE, "#"}))
         IN  [ok |-> u[i] = SMUGGLE /\ i < Len(u),
              url |-> SubSeq(u, 1, i - 1),
              data |-> IF i < Len(u) THEN Some(u[i + 1]) ELSE None]

(* _VALID_URL, first alternative: after the prefix, .*?\bidDiffusion=[^&]+ *)
PingMatches(rest) ==
    \E i \in 1..Len(rest) :
        /\ rest[i] = "idDiffusion"
        /\ i = 1 \/ rest[i - 1] \in PUNCTUATION
        /\ i + 2 <= Len(rest)
        /\ rest[i + 1] = "="
        /\ rest[i + 2] # "&"

(* self._match_valid_url(url): re.match of _VALID_URL at the start of the  *)
(* URL, with the groups 'id' ([^@]+, greedy) and 'catalog' (.+ after '@'). *)
MatchValidUrl(u) ==
    LET rest == From(u, 2)
        n == RunEnd(rest, 1, {t \in {rest[k] : k \in 1..Len(rest)} : t # "@"})
    IN  IF u # <<>> /\ u[1] = PING /\ PingMatches(rest)
        THEN [matched |-> TRUE, id |-> None, catalog |-> None]
        ELSE IF u # <<>> /\ u[1] \in {LEGACY, INTERNAL} /\ n > 1
        THEN [matched |-> TRUE,
              id |-> Some(SubSeq(rest, 1, n - 1)),
              catalog |-> IF n + 1 <= Len(rest)
                          THEN Some(From(rest, n + 1)) ELSE None]
        ELSE [matched |-> FALSE, id |-> None, catalog |-> None]

(* str.split(sep) on tokens.                                               *)
RECURSIVE Split(_, _)
Split(s, sep) ==
    IF Positions(s, {sep}) = {} THEN <<s>>
    ELSE LET i == Min(Positions(s, {sep}))
         IN  <<SubSeq(s, 1, i - 1)>> \o Split(From(s, i + 1), sep)

(* The query of the URL: what follows the '?' up to the fragment.          *)
Query(u) ==
    LET rest == From(u, 2)
        cut == Positions(rest, {"#"})
    IN  IF u = <<>> \/ u[1] # PING THEN <<>>
        ELSE IF cut = {} THEN rest ELSE SubSeq(rest, 1, Min(cut) - 1)

(* utils.parse_qs(url): the name=value pairs of the query, in order; a     *)
(* pair with no '=' or with a blank value is dropped.                      *)
ParseQs(u) ==
    LET pieces == Split(Query(u), "&")
        kept == SelectSeq(pieces, LAMBDA p :
                    /\ Positions(p, {"="}) # {}
                    /\ Min(Positions(p, {"="})) < Len(p))
    IN  [i \in 1..Len(kept) |->
            LET eq == Min(Positions(kept[i], {"="}))
            IN  [name |-> SubSeq(kept[i], 1, eq - 1),
                 value |-> From(kept[i], eq + 1)]]

(* Mutant of QsFirst: the last value of a repeated parameter is taken.     *)
QsLast(qs, name) ==
    LET hits == {i \in 1..Len(qs) : qs[i].name = <<name>>}
    IN  IF hits = {} THEN None ELSE Some(qs[Max(hits)].value)

(* qs.get(name, [None])[0]                                                 *)
QsFirst(qs, name) ==
    LET hits == {i \in 1..Len(qs) : qs[i].name = <<name>>}
    IN  IF hits = {} THEN None ELSE Some(qs[Min(hits)].value)

----------------------------------------------------------------------------
(* FranceTVIE._real_extract (lines 232-245), up to the call of             *)
(* _extract_video, whose first lines (93-102) set the locals.              *)
RealExtract ==
    /\ pc = "real_extract"
    /\ LET un == Unsmuggle(url)
           mobj == MatchValidUrl(un.url)
           qs == ParseQs(un.url)
           from_qs == ~Truthy(mobj.id)
           id == IF from_qs THEN QsFirst(qs, "idDiffusion") ELSE mobj.id
           catalog == IF from_qs THEN QsFirst(qs, "catalogue") ELSE mobj.catalog
       IN  IF ~un.ok \/ ~mobj.matched
           THEN /\ pc' = "error"
                /\ UNCHANGED args
           ELSE IF ~Truthy(id)
           THEN /\ pc' = "invalid_url"
                /\ UNCHANGED args
           ELSE /\ pc' = "download"
                /\ video_id' = id
                /\ catalogue' = catalog
                /\ hostname' = un.data
    /\ UNCHANGED <<url, world, device, locals, loop, requests, result,
                   info_result>>

(* Mutant of FirstNonNull: a later device type's value replaces the kept   *)
(* one.                                                                    *)
LastNonNull(current, supplied) == IF supplied # None THEN supplied ELSE current

(* The value a local takes in the device loop: kept once it is not None.   *)
FirstNonNull(current, supplied) == IF current = None THEN supplied ELSE current

(* Lines 131-132 assign both numbers on every pass that has a meta.        *)
EpisodeInfo(current, pre_title) == SearchEpisodeInfo(pre_title)

(* One pass of the device loop (lines 104-138).                            *)
DownloadJson ==
    /\ pc = "download"
    /\ LET device_type == DEVICE_TYPES[device]
           dinfo == backend[device_type]
           video == IF dinfo = None THEN None ELSE dinfo[1].video
           meta == IF dinfo = None THEN None ELSE dinfo[1].meta
           info == IF meta = None THEN <<season_number, episode_number>>
                   ELSE EpisodeInfo(<<season_number, episode_number>>,
                                    meta[1].pre_title)
           vs == IF video = None THEN videos ELSE Append(videos, video[1])
       IN  /\ requests' = Append(requests, Request("json", device_type, hostname, None,
                                              IF dinfo = None THEN "failed" ELSE "ok",
                                              None))
           /\ IF dinfo = None /\ JsonFatal
              THEN /\ pc' = "error"
                   /\ UNCHANGED <<device, locals>>
              ELSE /\ videos' = vs
                   /\ duration' = IF video = None THEN duration
                                  ELSE FirstNonNull(duration, video[1].duration)
                   /\ is_live' = IF video = None THEN is_live
                                 ELSE FirstNonNull(is_live, video[1].is_live)
                   /\ spritesheets' =
                        IF video = None THEN spritesheets
                        ELSE FirstNonNull(spritesheets, video[1].spritesheets)
                   /\ title' = IF meta = None THEN title
                               ELSE FirstNonNull(title, meta[1].title)
                   /\ season_number' = info[1]
                   /\ episode_number' = info[2]
                   /\ subtitle' = IF meta = None THEN subtitle
                                  ELSE FirstNonNull(subtitle, meta[1].additional_title)
                   /\ image' = IF meta = None THEN image
                               ELSE FirstNonNull(image, meta[1].image_url)
                   /\ timestamp' =
                        IF meta = None THEN timestamp
                        ELSE FirstNonNull(timestamp,
                                          ParseIso8601(meta[1].broadcasted_at))
                   /\ IF device < Len(DEVICE_TYPES)
                      THEN /\ device' = device + 1
                           /\ pc' = "download"
                      ELSE /\ device' = device
                           /\ pc' = IF Candidates(vs) = <<>> THEN "geo"
                                    ELSE "formats"
    /\ UNCHANGED <<url, world, args, loop, result, info_result>>

MANIFEST_KINDS == {"f4m", "m3u8", "mpd"}

(* The branch of lines 156-183 a URL takes.                                *)
Classify(u) ==
    IF DetermineExt(u) \in MANIFEST_KINDS THEN DetermineExt(u)
    ELSE IF u.scheme = "rtmp" THEN "rtmp"
    ELSE "direct"

(* What one descriptor adds to formats and subtitles (lines 156-183); ok   *)
(* tells whether the manifest parsed, or the direct URL was reachable.     *)
Extracted(u, format_id, kind, ok) ==
    CASE kind = "f4m" ->
           [formats |-> IF ok THEN ManifestFormats(u, format_id, Some("flv"), Some("f4m"))
                        ELSE <<>>,
            subtitles |-> {}]
      [] kind = "m3u8" ->
           [formats |-> IF ok THEN ManifestFormats(u, format_id, Some("mp4"),
                                                   Some("m3u8_native"))
                        ELSE <<>>,
            subtitles |-> IF ok THEN ManifestSubtitles(u) ELSE {}]
      [] kind = "mpd" ->
           [formats |-> IF ok THEN ManifestFormats(u, format_id, Some("mp4"),
                                                   Some("http_dash_segments"))
                        ELSE <<>>,
            subtitles |-> IF ok THEN ManifestSubtitles(u) ELSE {}]
      [] kind = "rtmp" ->
           [formats |-> <<Format(u, FormatId("rtmp", format_id, 0), Some("flv"),
                                 None, None, None, <<>>)>>,
            subtitles |-> {}]
      [] OTHER ->
           [formats |-> IF ok THEN <<Format(u, FormatId("", format_id, 0), None,
                                            None, None, None, <<>>)>>
                        ELSE <<>>,
            subtitles |-> {}]

(* Mutant of ResolvedUrl: the signed URL is fetched and then ignored.      *)
ResolvedUrlUnsigned(original, tokenized_url) == original

(* The URL the descriptor is resolved with (lines 142, 153-154).           *)
ResolvedUrl(original, tokenized_url) ==
    IF tokenized_url # None THEN tokenized_url[1] ELSE original

(* One pass of the descriptor loop (lines 141-183).                        *)
ProcessVideo ==
    /\ pc = "formats"
    /\ LET video == Candidates(videos)[vi + 1]
           format_id == video.format
           exchange == NeedsToken(video)
       IN  \E answer \in (IF exchange THEN TokenAnswers(video.url[1]) ELSE {None}),
              ok \in BOOLEAN :
             LET tokenized_url == IF exchange THEN TokenizedUrl(answer) ELSE None
                 u == ResolvedUrl(video.url[1], tokenized_url)
                 kind == Classify(u)
                 got == Extracted(u, format_id, kind, ok)
                 calls == (IF exchange
                           THEN <<Request("token", "", None, video.url,
                                          TokenStatus(answer), tokenized_url)>>
                           ELSE <<>>)
                          \o (IF kind = "rtmp" THEN <<>>
                              ELSE <<Request(kind, "", None, Some(u),
                                             IF ok THEN "ok" ELSE "failed", None)>>)
                 raised == \/ exchange /\ answer = None /\ TokenFatal
                           \/ kind \in MANIFEST_KINDS /\ ~ok /\ ManifestFatal
             IN  IF raised
                 THEN /\ pc' = "error"
                      /\ requests' = requests \o calls
                      /\ UNCHANGED loop
                 ELSE /\ requests' = requests \o calls
                      /\ video_url' = Some(u)
                      /\ formats' = formats \o got.formats
                      /\ subtitles' = subtitles \cup got.subtitles
                      /\ vi' = vi + 1
                      /\ pc' = IF vi + 1 < Len(Candidates(videos)) THEN "formats"
                               ELSE "geo"
    /\ UNCHANGED <<url, world, args, device, locals, result, info_result>>

(* Mutant of SignalsGeo: any response to the probe counts as a geo block.  *)
SignalsGeoAnyResponse(answer) == answer # "failed"

(* Line 191: the probe got a response whose x-errortype header is 'geo'.   *)
SignalsGeo(answer) == answer # "failed" /\ answer = "geo"

(* The geo-restriction check (lines 187-192); raise_geo_restricted raises. *)
GeoCheck ==
    /\ pc = "geo"
    /\ LET probe == formats = <<>> /\ video_url # None
       IN  \E answer \in (IF probe THEN PROBE_ANSWERS ELSE {"none"}) :
             /\ requests' = IF probe
                            THEN Append(requests, Request("head", "", None, video_url,
                                                         answer, None))
                            ELSE requests
             /\ pc' = IF probe /\ answer = "failed" /\ HeadFatal THEN "error"
                      ELSE IF probe /\ SignalsGeo(answer) THEN "geo_restricted"
                      ELSE "finish"
    /\ UNCHANGED <<url, world, args, device, locals, loop, result, info_result>>

(* Mutant of IsAudioDescription: only one of the two tags is recognised.   *)
IsAudioDescriptionQadOnly(f) ==
    f.acodec # Some("none") /\ f.language = Some("qad")

(* Lines 195-197.                                                          *)
IsAudioDescription(f) ==
    /\ f.acodec # Some("none")
    /\ f.language \in {Some(l) : l \in AUDIO_DESCRIPTION_LANGUAGES}

AnnotateAudioDescription(f) ==
    IF IsAudioDescription(f)
    THEN [f EXCEPT !.language_preference = Some(AUDIO_DESCRIPTION_PREFERENCE),
                   !.format_note = <<"audio description">> \o f.format_note]
    ELSE f

(* Lines 200-215.                                                          *)
Storyboard(sheets) ==
    [Format([scheme |-> "about", ext |-> "", signed |-> FALSE],
            FormatId("spritesheets", None, 0), Some("mhtml"), Some("mhtml"),
            Some("none"), None, <<"storyboard">>)
     EXCEPT !.vcodec = Some("none"),
            !.fragments = [i \in 1..Len(sheets) |->
                             [url |-> sheets[i], duration |-> FRAGMENT_DURATION]]]

(* Lines 199-215: the storyboard is appended when spritesheets is truthy.  *)
WithStoryboard(fs, sheets) ==
    IF Truthy(sheets) THEN Append(fs, Storyboard(sheets[1])) ELSE fs

(* Mutant of SeriesFields: episode and series are filled in whether or not *)
(* an episode number was found.                                            *)
SeriesFieldsUngated(t, st, season, episode) ==
    [episode |-> st,
     series |-> t,
     episode_number |-> IntOrNone(episode),
     season_number |-> IntOrNone(season)]

(* Lines 226-229.                                                          *)
SeriesFields(t, st, season, episode) ==
    [episode |-> IF Truthy(episode) THEN st ELSE None,
     series |-> IF Truthy(episode) THEN t ELSE None,
     episode_number |-> IntOrNone(episode),
     season_number |-> IntOrNone(season)]

(* Lines 194-230: annotate, add the storyboard, return the manifest.       *)
Return ==
    /\ pc = "finish"
    /\ LET annotated == [i \in 1..Len(formats) |->
                            AnnotateAudioDescription(formats[i])]
           all == WithStoryboard(annotated, spritesheets)
           series == SeriesFields(title, subtitle, season_number, episode_number)
       IN  /\ formats' = all
           /\ result' = Some([id |-> video_id,
                              title |-> JoinNonempty(title, subtitle),
                              thumbnail |-> image,
                              duration |-> duration,
                              timestamp |-> timestamp,
                              is_live |-> is_live,
                              formats |-> all,
                              subtitles |-> subtitles,
                              episode |-> series.episode,
                              series |-> series.series,
                              episode_number |-> series.episode_number,
                              season_number |-> series.season_number])
    /\ pc' = "returned"
    /\ UNCHANGED <<url, world, args, device, locals, vi, subtitles, video_url,
                   requests, info_result>>

----------------------------------------------------------------------------
(* FranceTVInfoIE.  A page is kept as what the extractor reads off it: the *)
(* hostname of its URL, the Dailymotion embed URLs found in it, and for    *)
(* each of the four patterns of lines 420-423 the group its first match    *)
(* captures (None when the pattern matches nowhere).                       *)

(* str.join on tokens.                                                     *)
RECURSIVE Join(_, _)
Join(parts, sep) ==
    IF parts = <<>> THEN <<>>
    ELSE IF Len(parts) = 1 THEN parts[1]
    ELSE parts[1] \o <<sep>> \o Join(From(parts, 2), sep)

(* FranceTVBaseInfoExtractor._make_url_result (lines 23-31); page_host is  *)
(* urllib.parse.urlparse(url).hostname, None when no url is passed.        *)
MakeUrlResult(video_or_full_id, catalog, page_host) ==
    LET plain == <<INTERNAL>> \o video_or_full_id
        full_id == IF Positions(video_or_full_id, {"@"}) = {} /\ Truthy(catalog)
                   THEN plain \o <<"@">> \o catalog[1] ELSE plain
    IN  [type |-> "url",
         url |-> IF page_host # None THEN full_id \o <<SMUGGLE, page_host[1]>>
                 ELSE full_id,
         ie_key |-> "FranceTV",
         id |-> Split(video_or_full_id, "@")[1],
         entries |-> <<>>]

(* Mutant of SearchRegex: the patterns are tried from the last one.        *)
RECURSIVE SearchRegexReversed(_)
SearchRegexReversed(groups) ==
    IF groups = <<>> THEN None
    ELSE IF groups[Len(groups)] # None THEN groups[Len(groups)]
    ELSE SearchRegexReversed(SubSeq(groups, 1, Len(groups) - 1))

(* self._search_regex((p1, p2, p3, p4), webpage, 'video id'): the group of *)
(* the first pattern, in the order given, that matches.                    *)
RECURSIVE SearchRegex(_)
SearchRegex(groups) ==
    IF groups = <<>> THEN None
    ELSE IF groups[1] # None THEN groups[1]
    ELSE SearchRegex(From(groups, 2))

(* FranceTVInfoIE._real_extract (lines 408-426).  A url_result is resolved *)
(* by handing its URL to the extractor it names, FranceTVIE, provided the  *)
(* URL matches that extractor's _VALID_URL.                                *)
InfoRealExtract ==
    /\ pc = "info"
    /\ LET dailymotion_urls == page.embeds
           video_id_found == SearchRegex(page.strategies)
           reference == MakeUrlResult(video_id_found[1], None, Some(page.hostname))
       IN  IF dailymotion_urls # <<>>
           THEN /\ info_result' =
                     Some([type |-> "playlist", url |-> <<>>, ie_key |-> "", id |-> <<>>,
                           entries |-> [i \in 1..Len(dailymotion_urls) |->
                                          [url |-> dailymotion_urls[i],
                                           ie_key |-> "Dailymotion"]]])
                /\ pc' = "playlist"
                /\ url' = url
           ELSE IF video_id_found = None
           THEN /\ pc' = "not_found"
                /\ UNCHANGED <<info_result, url>>
           ELSE /\ info_result' = Some(reference)
                /\ url' = reference.url
                /\ pc' = IF MatchValidUrl(Unsmuggle(reference.url).url).matched
                         THEN "real_extract" ELSE "unsuitable"
    /\ UNCHANGED <<world, args, device, locals, loop, requests, result>>

Next == RealExtract \/ DownloadJson \/ ProcessVideo \/ GeoCheck \/ Return

----------------------------------------------------------------------------
(* Initial states.  The state before _real_extract runs: nothing fetched,  *)
(* every local as lines 93-102 and 140 set it.                             *)
Start(entry) ==
    /\ pc = entry
    /\ video_id = None /\ catalogue = None /\ hostname = None
    /\ device = 1
    /\ is_live = None /\ videos = <<>> /\ title = None /\ subtitle = None
    /\ episode_number = None /\ season_number = None /\ image = None
    /\ duration = None /\ timestamp = None /\ spritesheets = None
    /\ vi = 0 /\ formats = <<>> /\ subtitles = {} /\ video_url = None
    /\ requests = <<>>
    /\ result = None
    /\ info_result = None

(* What the web service answers for one device type: nothing (the download *)
(* failed), or a dict with an optional 'video' and an optional 'meta'.     *)
Answers(videoSet, metaSet) ==
    {None} \cup {Some([video |-> v, meta |-> m]) : v \in videoSet, m \in metaSet}

Variant(acodec, language, note) ==
    [acodec |-> acodec, language |-> language, format_note |-> note]

PlainManifest ==
    [variants |-> <<Variant(Some("mp4a.40.2"), Some("fra"), <<>>)>>,
     subtitles |-> {"fr"}]

NoPage == [hostname |-> "", embeds |-> <<>>, strategies |-> <<>>]

InternalUrl == <<INTERNAL, "162311093", SMUGGLE, "www.france.tv">>

Sheets(n) == [i \in 1..n |-> i]

TOKEN_ENDPOINT == Url("https", "")

StreamUrls ==
    {Url("http", "f4m"), Url("https", "m3u8"), Url("https", "mpd"),
     Url("rtmp", ""), Url("https", "mp4")}

(* Descriptors of every container, with and without a token endpoint.      *)
StreamVideos ==
    [url : {None, Some(Url("bad", ""))} \cup {Some(u) : u \in StreamUrls},
     format : {Some("hls_v1")},
     token : {None, Some(TOKEN_ENDPOINT)},
     workflow : {Some(TOKEN_WORKFLOW), Some("dai")},
     duration : {None},
     is_live : {None},
     spritesheets : {None, Some(Sheets(MaxSheets))}]

Init ==
    /\ url = InternalUrl
    /\ backend \in [{"desktop", "mobile"} ->
                      Answers({None} \cup {Some(v) : v \in StreamVideos}, {None})]
    /\ served = PlainManifest
    /\ page = NoPage
    /\ Start("real_extract")

Spec == Init /\ [][Next]_vars

(* Metadata merging: every merged field may be missing or present in each  *)
(* answer; the desktop answer's values are the falsy ones where the type   *)
(* has one (0, False, []), so that None and falsy are told apart.          *)
RtmpVideo ==
    [url |-> Some(Url("rtmp", "")), format |-> Some("hls_v1"), token |-> None,
     workflow |-> None, duration |-> None, is_live |-> None,
     spritesheets |-> None]

MergeVideos(d) ==
    {[RtmpVideo EXCEPT !.duration = du, !.is_live = li, !.spritesheets = sp] :
        du \in {None, Some(IF d = "desktop" THEN 0 ELSE 2580)},
        li \in {None, Some(d = "mobile")},
        sp \in {None, Some(IF d = "desktop" THEN <<>> ELSE Sheets(MaxSheets))}}

TitleOf(d) == IF d = "desktop" THEN "13h15, le dimanche..." ELSE "Foot2Rue"

SubtitleOf(d) ==
    IF d = "desktop" THEN "Les mysteres de Jesus" ELSE "Duel au vieux port"

MergeMetas(d) ==
    [title : {None, Some(TitleOf(d))},
     pre_title : {None},
     additional_title : {None, Some(SubtitleOf(d))},
     image_url : {None, Some(IF d = "desktop" THEN "desktop.jpg" ELSE "mobile.jpg")},
     broadcasted_at : {None, Some("not a date"),
                       Some(IF d = "desktop" THEN "2017-08-13T11:25:00Z"
                            ELSE "2022-01-21T10:36:00Z")}]

InitMerge ==
    /\ url = InternalUrl
    /\ backend \in
          [desktop : Answers({None} \cup {Some(v) : v \in MergeVideos("desktop")},
                             {None} \cup {Some(m) : m \in MergeMetas("desktop")}),
           mobile : Answers({None} \cup {Some(v) : v \in MergeVideos("mobile")},
                            {None} \cup {Some(m) : m \in MergeMetas("mobile")})]
    /\ served = PlainManifest
    /\ page = NoPage
    /\ Start("real_extract")

SpecMerge == InitMerge /\ [][Next]_vars

(* Series attribution: titles and pre_titles with and without a marker.    *)
PreTitles ==
    {<<"S", "1", " ", "E", "3">>, <<"S", "2", "E", "1", "5">>, <<"E", "3">>,
     <<"x", " ", "S", "1", "0", " ", " ", "E", "7", "!">>}

SeriesMetas(d) ==
    [title : {None, Some(TitleOf(d))},
     pre_title : {None} \cup {Some(t) : t \in PreTitles},
     additional_title : {None, Some(SubtitleOf(d))},
     image_url : {None},
     broadcasted_at : {None}]

InitSeries ==
    /\ url = InternalUrl
    /\ backend \in
          [desktop : Answers({None, Some(RtmpVideo)},
                             {None} \cup {Some(m) : m \in SeriesMetas("desktop")}),
           mobile : Answers({None, Some(RtmpVideo)},
                            {None} \cup {Some(m) : m \in SeriesMetas("mobile")})]
    /\ served = PlainManifest
    /\ page = NoPage
    /\ Start("real_extract")

SpecSeries == InitSeries /\ [][Next]_vars

(* Audio description: manifests whose variants carry every combination of  *)
(* audio codec, language tag and format note.                              *)
Variants ==
    {Variant(a, l, n) :
        a \in {None, Some("none"), Some("mp4a.40.2")},
        l \in {None, Some("fra"), Some("qtz"), Some("qad")},
        n \in {<<>>, <<"DASH audio">>}}

LanguageVideos ==
    {[RtmpVideo EXCEPT !.url = Some(u), !.spritesheets = sp] :
        u \in {Url("https", "m3u8"), Url("https", "mpd"), Url("rtmp", "")},
        sp \in {None, Some(Sheets(MaxSheets))}}

InitLanguage ==
    /\ url = InternalUrl
    /\ backend \in
          [desktop : Answers({Some(v) : v \in LanguageVideos}, {None}),
           mobile : Answers({Some(v) : v \in LanguageVideos}, {None})]
    /\ served \in {[variants |-> vs, subtitles |-> {"fr"}] :
                      vs \in UNION {[1..n -> Variants] : n \in 0..MaxVariants}}
    /\ page = NoPage
    /\ Start("real_extract")

SpecLanguage == InitLanguage /\ [][Next]_vars

(* URL classification: every URL of the three shapes that _VALID_URL       *)
(* accepts (the extractor is only handed URLs it is suitable for), with    *)
(* and without smuggled data.                                              *)
SeqsUpTo(S, n) == UNION {[1..k -> S] : k \in 1..n}

BodyTokens == {"NI_657393", "Regions", "@", "&"}

QueryNames ==
    {<<"idDiffusion">>, <<"catalogue">>, <<"callback">>,
     <<"x", "-", "idDiffusion">>}

QueryValues ==
    {<<>>, <<"162311093">>, <<"Zouzous">>, <<"idDiffusion", "=", "1">>}

RenderParam(p) == p.name \o <<"=">> \o p.value

RenderQuery(params) ==
    Join([i \in 1..Len(params) |-> RenderParam(params[i])], "&")

Fragments == {<<>>, <<"#", "idDiffusion", "=", "9">>}

RawUrls ==
    {<<prefix>> \o body :
        prefix \in {LEGACY, INTERNAL}, body \in SeqsUpTo(BodyTokens, MaxBody)}
    \cup
    {<<PING>> \o RenderQuery(params) \o fragment :
        params \in SeqsUpTo([name : QueryNames, value : QueryValues], MaxParams),
        fragment \in Fragments}

SuitableUrls ==
    {u \in RawUrls \cup {raw \o <<SMUGGLE, "www.france.tv">> : raw \in RawUrls} :
        MatchValidUrl(Unsmuggle(u).url).matched}

OneRtmpBackend ==
    [desktop |-> Some([video |-> Some(RtmpVideo), meta |-> None]),
     mobile |-> None]

InitClassify ==
    /\ url \in SuitableUrls
    /\ backend = OneRtmpBackend
    /\ served = PlainManifest
    /\ page = NoPage
    /\ Start("real_extract")

SpecClassify == InitClassify /\ [][Next]_vars

(* Page resolution: pages with and without embeds, each pattern matching   *)
(* or not.                                                                 *)
PageHosts ==
    {"www.francetvinfo.fr", "mobile.francetvinfo.fr",
     "france3-regions.francetvinfo.fr"}

Pages ==
    [hostname : PageHosts,
     embeds : {<<>>} \cup SeqsUpTo({"https://www.dailymotion.com/video/x4iiko0"},
                                   MaxEmbeds),
     strategies :
        {<<s1, s2, s3, s4>> :
            s1 \in {None, Some(<<"d12458ee">>), Some(<<"NI_1", "@", "Info-web">>),
                       Some(<<"@", "Info-web">>)},
            s2 \in {None, Some(<<"NI_2", "@", "Info-web">>)},
            s3 \in {None, Some(<<"NI_3", "@", "Regions">>)},
            s4 \in {None, Some(<<"7d204c9e">>)}}]

InitInfo ==
    /\ url = <<>>
    /\ backend = OneRtmpBackend
    /\ served = PlainManifest
    /\ page \in Pages
    /\ Start("info")

NextInfo == InfoRealExtract \/ Next

SpecInfo == InitInfo /\ [][NextInfo]_vars

----------------------------------------------------------------------------
(* Vocabulary of the properties.                                           *)
Finished == pc \in {"returned", "geo_restricted"}

AfterDeviceLoop == pc \in {"formats", "geo", "finish", "returned", "geo_restricted"}

AfterDescriptorLoop == pc \in {"geo", "finish", "returned", "geo_restricted"}

(* The descriptor a device type's answer carries, if any.                  *)
SuppliedVideo(d) == IF backend[d] = None THEN None ELSE backend[d][1].video

SuppliedMeta(d) == IF backend[d] = None THEN None ELSE backend[d][1].meta

SuppliedDescriptors == SuppliedVideo("desktop") \o SuppliedVideo("mobile")

HasValidUrl(v) == v.url # None /\ v.url[1].scheme \in VALID_SCHEMES

RequestsOf(op) == SelectSeq(requests, LAMBDA r : r.op = op)

(* The formats resolved from descriptors: all but the storyboard.          *)
Resolved(fs) == SelectSeq(fs, LAMBDA f : f.format_id.prefix # "spritesheets")

----------------------------------------------------------------------------
(* C2 (as amended).  When no format was resolved and the HEAD probe of the *)
(* candidate URL answers with x-errortype 'geo', GeoRestricted is raised   *)
(* and nothing is returned; GeoRestricted is raised in no other case; the  *)
(* probe is made exactly when no format was resolved and a candidate URL   *)
(* exists.  When no format was resolved and the probe carries no such      *)
(* header or fails, the manifest is returned and its formats hold no       *)
(* resolved format: they are empty, or hold only the storyboard when       *)
(* spritesheets is non-empty.                                              *)
C2_GeoPath ==
    /\ pc # "error"
    /\ pc = "geo_restricted" =>
          /\ formats = <<>> /\ result = None
          /\ Len(RequestsOf("head")) = 1
          /\ RequestsOf("head")[1].status = "geo"
          /\ RequestsOf("head")[1].url = video_url
    /\ pc \in {"finish", "returned"} =>
          \A i \in 1..Len(RequestsOf("head")) : RequestsOf("head")[i].status # "geo"
    /\ pc \in {"finish", "returned", "geo_restricted"} =>
          (RequestsOf("head") # <<>>
             <=> (Resolved(formats) = <<>> /\ video_url # None))
    /\ pc = "returned" /\ Resolved(formats) = <<>> =>
          /\ Len(result[1].formats) <= 1
          /\ Len(result[1].formats) = 1 <=>
                (spritesheets # None /\ spritesheets[1] # <<>>)
          /\ \A i \in 1..Len(result[1].formats) :
                /\ result[1].formats[i].format_id.prefix = "spritesheets"
                /\ result[1].formats[i].format_note = <<"storyboard">>

(* C2 as claimed: with no format resolved and no geo header, the manifest  *)
(* is returned with an empty formats list.                                 *)
C2_Original ==
    /\ pc = "geo_restricted" =>
          formats = <<>> /\ RequestsOf("head")[1].status = "geo"
    /\ pc \in {"finish", "returned"} =>
          \A i \in 1..Len(RequestsOf("head")) : RequestsOf("head")[i].status # "geo"
    /\ /\ pc = "returned"
       /\ Resolved(formats) = <<>>
       /\ RequestsOf("head") # <<>>
       /\ RequestsOf("head")[1].status \in {"plain", "failed"}
       => result[1].formats = <<>>

C2_Witness ==
    /\ pc = "returned"
    /\ RequestsOf("head") # <<>>
    /\ RequestsOf("head")[1].status = "plain"
    /\ Len(result[1].formats) = 1

(* C6 (as amended).  The descriptors of the desktop and mobile answers are *)
(* concatenated in that order and never deduplicated; the descriptors that *)
(* enter the format-resolution loop are those among them whose url is a    *)
(* valid URL, so their number is the number of such descriptors (each      *)
(* answer carries at most one), and a descriptor returned identically by   *)
(* both profiles is processed twice.                                       *)
C6_Concatenated ==
    /\ AfterDeviceLoop => videos = SuppliedDescriptors
    /\ AfterDescriptorLoop /\ pc # "error" =>
          vi = Cardinality({i \in 1..Len(SuppliedDescriptors) :
                               HasValidUrl(SuppliedDescriptors[i])})

(* C6 as claimed: as many descriptors enter the loop as were supplied, and *)
(* a descriptor both profiles return is processed twice.                   *)
C6_Original ==
    AfterDescriptorLoop =>
       /\ videos = SuppliedDescriptors
       /\ vi = Len(SuppliedDescriptors)
       /\ SuppliedVideo("desktop") # None
             /\ SuppliedVideo("desktop") = SuppliedVideo("mobile") => vi = 2

C6_Witness ==
    /\ pc = "returned"
    /\ SuppliedVideo("desktop") # None
    /\ SuppliedVideo("desktop") = SuppliedVideo("mobile")
    /\ vi = 2
    /\ Len(Resolved(formats)) = 2

(* C7.  Whatever fails (either metadata query, a token exchange, a         *)
(* manifest parse, a reachability probe, the geo probe), the call never    *)
(* ends in another error than GeoRestricted, it can always take its next   *)
(* step until it has ended, both device types are queried and every        *)
(* descriptor with a valid URL is processed; when both metadata queries    *)
(* fail a manifest with empty formats is returned.                         *)
C7_FailSoft ==
    /\ pc # "error"
    /\ pc \notin {"returned", "geo_restricted", "invalid_url"} => ENABLED Next
    /\ Finished =>
          /\ Len(RequestsOf("json")) = 2
          /\ RequestsOf("json")[1].device = "desktop"
          /\ RequestsOf("json")[2].device = "mobile"
          /\ vi = Cardinality({i \in 1..Len(SuppliedDescriptors) :
                                  HasValidUrl(SuppliedDescriptors[i])})
    /\ AfterDescriptorLoop /\ backend["desktop"] = None /\ backend["mobile"] = None =>
          /\ pc # "geo_restricted"
          /\ pc = "returned" => result[1].formats = <<>>

C7_Witness ==
    /\ pc = "returned"
    /\ \E i \in 1..Len(requests) :
          requests[i].op = "json" /\ requests[i].status = "failed"
    /\ \E i \in 1..Len(requests) :
          requests[i].op = "token" /\ requests[i].status = "failed"
    /\ \E i \in 1..Len(requests) :
          requests[i].op \in MANIFEST_KINDS /\ requests[i].status = "failed"
    /\ result[1].formats = <<>>

(* C10.  In one pass of the descriptor loop the token endpoint is queried  *)
(* exactly when the descriptor carries a valid token URL and its workflow  *)
(* is 'token-akamai'.  When the exchange hands out a valid signed URL,     *)
(* that URL is the one classified, parsed or probed, emitted in the        *)
(* formats and kept as the candidate of the geo probe; when it fails or    *)
(* hands out no valid URL the descriptor is processed all the same, with   *)
(* its own URL.  The geo probe asks for the last candidate.                *)
C10_TokenExchange ==
    [][/\ pc = "formats" =>
            LET video == Candidates(videos)[vi + 1]
                new == SubSeq(requests', Len(requests) + 1, Len(requests'))
                tokens == SelectSeq(new, LAMBDA r : r.op = "token")
                others == SelectSeq(new, LAMBDA r : r.op # "token")
                emitted == SubSeq(formats', Len(formats) + 1, Len(formats'))
                used == IF tokens # <<>> /\ tokens[1].status = "signed"
                        THEN tokens[1].got[1] ELSE video.url[1]
            IN  /\ Len(tokens) = IF /\ video.token # None
                                    /\ video.token[1].scheme \in VALID_SCHEMES
                                    /\ video.workflow = Some("token-akamai")
                                 THEN 1 ELSE 0
                /\ \A i \in 1..Len(tokens) : tokens[i].url = video.url
                /\ pc' \in {"formats", "geo"}
                /\ vi' = vi + 1
                /\ video_url' = Some(used)
                /\ Len(others) = IF used.scheme = "rtmp" /\ used.ext = "" THEN 0 ELSE 1
                /\ \A i \in 1..Len(others) :
                      /\ others[i].url = Some(used)
                      /\ others[i].op =
                            IF used.ext \in {"f4m", "m3u8", "mpd"} THEN used.ext
                            ELSE "direct"
                      /\ others[i].status = "ok" => emitted # <<>>
                /\ used.scheme = "rtmp" /\ used.ext = "" => Len(emitted) = 1
                /\ \A i \in 1..Len(emitted) : emitted[i].url = used
       /\ pc = "geo" /\ requests' # requests =>
            /\ requests'[Len(requests')].op = "head"
            /\ requests'[Len(requests')].url = video_url]_vars

C10_Witness ==
    /\ pc = "returned"
    /\ \E i \in 1..Len(requests) :
          requests[i].op = "token" /\ requests[i].status = "signed"
    /\ \E i \in 1..Len(requests) :
          requests[i].op = "token" /\ requests[i].status \in {"failed", "no_url"}
    /\ \E i, j \in 1..Len(formats) :
          formats[i].url.signed /\ ~formats[j].url.signed

(* The first of the two device types' values that is not None.             *)
DesktopFirst(desktop, mobile) == IF desktop # None THEN desktop ELSE mobile

VideoField(d, f) == IF SuppliedVideo(d) = None THEN None ELSE SuppliedVideo(d)[1][f]

MetaField(d, f) == IF SuppliedMeta(d) = None THEN None ELSE SuppliedMeta(d)[1][f]

MergedVideoField(f) == DesktopFirst(VideoField("desktop", f), VideoField("mobile", f))

MergedMetaField(f) == DesktopFirst(MetaField("desktop", f), MetaField("mobile", f))

(* C1.  Once both device types were queried, each of title, subtitle,      *)
(* image, duration, timestamp, is_live and spritesheets holds the first    *)
(* value, in the order desktop, mobile, that is not None (for timestamp:   *)
(* the first broadcasted_at that parses), and the returned manifest        *)
(* carries these values.                                                   *)
C1_FirstNonNull ==
    /\ AfterDeviceLoop =>
          /\ title = MergedMetaField("title")
          /\ subtitle = MergedMetaField("additional_title")
          /\ image = MergedMetaField("image_url")
          /\ timestamp = DesktopFirst(
                ParseIso8601(MetaField("desktop", "broadcasted_at")),
                ParseIso8601(MetaField("mobile", "broadcasted_at")))
          /\ duration = MergedVideoField("duration")
          /\ is_live = MergedVideoField("is_live")
          /\ spritesheets = MergedVideoField("spritesheets")
    /\ pc = "returned" =>
          /\ result[1].thumbnail = MergedMetaField("image_url")
          /\ result[1].duration = MergedVideoField("duration")
          /\ result[1].is_live = MergedVideoField("is_live")
          /\ result[1].timestamp = timestamp
          /\ result[1].title =
                MergedMetaField("title") \o MergedMetaField("additional_title")
          /\ \A i \in 1..Len(result[1].formats) :
                result[1].formats[i].format_id.prefix = "spritesheets" =>
                   /\ MergedVideoField("spritesheets") # None
                   /\ Len(result[1].formats[i].fragments)
                         = Len(MergedVideoField("spritesheets")[1])

C1_Witness ==
    /\ pc = "returned"
    /\ SuppliedMeta("desktop") # None
    /\ MetaField("desktop", "title") = None
    /\ MetaField("mobile", "title") # None
    /\ result[1].title = MetaField("mobile", "title")
    /\ VideoField("desktop", "is_live") = Some(FALSE)
    /\ VideoField("mobile", "is_live") = Some(TRUE)
    /\ result[1].is_live = Some(FALSE)
    /\ MetaField("desktop", "broadcasted_at") = Some("not a date")
    /\ result[1].timestamp = Some(1642761360)

(* The format_note a format had when it was extracted.                     *)
NoteBefore(f) ==
    IF f.format_id.prefix = "spritesheets" THEN <<"storyboard">>
    ELSE IF f.format_id.variant = 0 THEN <<>>
    ELSE served.variants[f.format_id.variant].format_note

(* C3 (as amended).  In every returned manifest a format whose language is *)
(* 'qtz' or 'qad' and whose acodec is not 'none' has language_preference   *)
(* -10, which is less than the default preference, and a format_note that  *)
(* is 'audio description' followed by the note it had; every other format  *)
(* (another language tag, or no audio track) has no language_preference    *)
(* and the note it had.                                                    *)
C3_AudioDescription ==
    pc = "returned" =>
       \A i \in 1..Len(result[1].formats) :
          LET f == result[1].formats[i]
          IN  IF f.language \in {Some("qtz"), Some("qad")} /\ f.acodec # Some("none")
              THEN /\ f.language_preference = Some(-10)
                   /\ f.language_preference[1] < DEFAULT_LANGUAGE_PREFERENCE
                   /\ f.format_note = <<"audio description">> \o NoteBefore(f)
              ELSE /\ f.language_preference = None
                   /\ f.format_note = NoteBefore(f)

(* C3 as claimed: every format tagged 'qtz' or 'qad' is deprioritised.     *)
C3_Original ==
    pc = "returned" =>
       \A i \in 1..Len(result[1].formats) :
          LET f == result[1].formats[i]
          IN  IF f.language \in {Some("qtz"), Some("qad")}
              THEN /\ f.language_preference = Some(-10)
                   /\ f.format_note[1] = "audio description"
              ELSE /\ f.language_preference = None
                   /\ f.format_note = NoteBefore(f)

C3_Witness ==
    /\ pc = "returned"
    /\ \E i, j \in 1..Len(result[1].formats) :
          /\ result[1].formats[i].language = Some("qtz")
          /\ result[1].formats[i].language_preference = Some(-10)
          /\ result[1].formats[i].format_note = <<"audio description", "DASH audio">>
          /\ result[1].formats[j].language = None
          /\ result[1].formats[j].language_preference = None

(* C4 (as amended).  In every returned manifest episode_number and         *)
(* season_number are null together or non-null together; when they are     *)
(* null, episode and series are null too; when they are non-null, episode  *)
(* is the merged additional_title and series the merged title, each null   *)
(* when no device type supplied it.                                        *)
C4_SeriesFields ==
    pc = "returned" =>
       /\ result[1].episode_number = None <=> result[1].season_number = None
       /\ result[1].episode_number = None <=> episode_number = None
       /\ result[1].episode_number = None =>
             result[1].episode = None /\ result[1].series = None
       /\ result[1].episode_number # None =>
             /\ result[1].episode = MergedMetaField("additional_title")
             /\ result[1].series = MergedMetaField("title")

(* C4 as claimed: the four fields are all null or all non-null.            *)
C4_Original ==
    pc = "returned" =>
       \/ /\ result[1].episode # None /\ result[1].series # None
          /\ result[1].episode_number # None /\ result[1].season_number # None
       \/ /\ result[1].episode = None /\ result[1].series = None
          /\ result[1].episode_number = None /\ result[1].season_number = None

C4_Witness ==
    /\ pc = "returned"
    /\ result[1].episode_number = Some(3)
    /\ result[1].season_number = Some(1)
    /\ result[1].series # None
    /\ result[1].episode = None

(* The season and episode a device type's pre_title carries.               *)
MarkerOf(d) == SearchEpisodeInfo(MetaField(d, "pre_title"))

FirstMarker ==
    IF MarkerOf("desktop")[2] # None THEN MarkerOf("desktop") ELSE MarkerOf("mobile")

(* C5 as claimed.  season_number and episode_number of the returned        *)
(* manifest are those of the first device type, in the order desktop,      *)
(* mobile, whose pre_title carries the marker, and the four series fields  *)
(* are absent only when no device type's pre_title carries one.            *)
C5_FirstMarker ==
    pc = "returned" =>
       /\ result[1].season_number = IntOrNone(FirstMarker[1])
       /\ result[1].episode_number = IntOrNone(FirstMarker[2])
       /\ FirstMarker[2] # None => result[1].series = MergedMetaField("title")
       /\ FirstMarker[2] # None =>
             result[1].episode = MergedMetaField("additional_title")

(* The input URL without its smuggled data.                                *)
IsSmuggled == Len(url) >= 2 /\ url[Len(url) - 1] = SMUGGLE

PlainUrl == IF IsSmuggled THEN SubSeq(url, 1, Len(url) - 2) ELSE url

(* The query of a ping URL: what follows the prefix, up to the fragment.   *)
PingQuery ==
    LET rest == SubSeq(PlainUrl, 2, Len(PlainUrl))
    IN  IF \E i \in 1..Len(rest) : rest[i] = "#"
        THEN SubSeq(rest, 1, (CHOOSE i \in 1..Len(rest) :
                                 rest[i] = "#" /\ \A j \in 1..(i - 1) : rest[j] # "#") - 1)
        ELSE rest

(* Tokens i..j of the query are one parameter called name with a value.    *)
IsParameter(q, i, j, name) ==
    /\ 1 <= i /\ i + 2 <= j /\ j <= Len(q)
    /\ i = 1 \/ q[i - 1] = "&"
    /\ j = Len(q) \/ q[j + 1] = "&"
    /\ \A k \in i..j : q[k] # "&"
    /\ q[i] = name /\ q[i + 1] = "="

ParameterSpans(q, name) ==
    {<<i, j>> \in (1..Len(q)) \X (1..Len(q)) : IsParameter(q, i, j, name)}

(* The value the shape promises for the parameter: that of its first       *)
(* occurrence, None without one.                                           *)
ExpectedParameter(q, name) ==
    IF ParameterSpans(q, name) = {} THEN None
    ELSE LET first == CHOOSE sp \in ParameterSpans(q, name) :
                         \A other \in ParameterSpans(q, name) : sp[1] <= other[1]
         IN  Some(SubSeq(q, first[1] + 2, first[2]))

FirstMatching ==
    CHOOSE k \in 1..4 :
       /\ page.strategies[k] # None
       /\ \A j \in 1..(k - 1) : page.strategies[j] = None

(* What precedes the first '@' of a captured group.                       *)
IdPart(full) ==
    IF \E k \in 1..Len(full) : full[k] = "@"
    THEN SubSeq(full, 1, (CHOOSE k \in 1..Len(full) :
                             full[k] = "@" /\ \A j \in 1..(k - 1) : full[j] # "@") - 1)
    ELSE full

(* C9.  A page with Dailymotion embeds yields a playlist of one delegated  *)
(* reference per embed and nothing else is done.  Otherwise the reference  *)
(* is built from the group of the first of the four patterns, in their     *)
(* listed order, that matches, and carries the page's hostname; with no    *)
(* match the call fails and nothing is handed on.  The Fetcher is never    *)
(* given an empty identifier: a group that starts with '@' makes a         *)
(* reference FranceTVIE does not accept, and no request follows.           *)
C9_PageResolution ==
    pc # "info" =>
       /\ pc \notin {"error", "invalid_url"}
       /\ page.embeds # <<>> =>
             /\ pc = "playlist"
             /\ info_result[1].type = "playlist"
             /\ Len(info_result[1].entries) = Len(page.embeds)
             /\ \A i \in 1..Len(page.embeds) :
                   /\ info_result[1].entries[i].url = page.embeds[i]
                   /\ info_result[1].entries[i].ie_key = "Dailymotion"
             /\ url = <<>> /\ requests = <<>>
       /\ page.embeds = <<>> /\ (\A k \in 1..4 : page.strategies[k] = None) =>
             pc = "not_found" /\ info_result = None /\ url = <<>> /\ requests = <<>>
       /\ page.embeds = <<>> /\ (\E k \in 1..4 : page.strategies[k] # None) =>
             /\ pc \notin {"playlist", "not_found"}
             /\ pc = "unsuitable" <=> page.strategies[FirstMatching][1][1] = "@"
             /\ pc = "unsuitable" => requests = <<>> /\ video_id = None
             /\ info_result[1].type = "url"
             /\ info_result[1].ie_key = "FranceTV"
             /\ info_result[1].url =
                   <<INTERNAL>> \o page.strategies[FirstMatching][1]
                      \o <<SMUGGLE, page.hostname>>
             /\ info_result[1].id = IdPart(page.strategies[FirstMatching][1])
             /\ url = info_result[1].url
             /\ pc \notin {"real_extract", "unsuitable"} =>
                   /\ video_id = Some(IdPart(page.strategies[FirstMatching][1]))
                   /\ video_id[1] # <<>>
                   /\ hostname = Some(page.hostname)
             /\ \A i \in 1..Len(requests) :
                   requests[i].op = "json" => requests[i].domain = Some(page.hostname)

C9_Witness ==
    /\ pc = "returned"
    /\ page.strategies[1] = None
    /\ page.strategies[2] # None
    /\ page.strategies[4] # None
    /\ video_id = Some(<<"NI_2">>)
    /\ hostname = Some(page.hostname)

====
